---- MODULE Spec2Model ----
(***************************************************************************)
(* Model of the instance cache route (src/unnamed/part_001): the GET sweep  *)
(* over all non-banned instances, the POST refresh endpoint, the thumbnail  *)
(* sanitizer validateThumbnailPath and the notifier triggerRevalidation.    *)
(*                                                                          *)
(* Every `await` of the handlers is one step of the model, so that two      *)
(* requests can interleave exactly where the event loop lets them.          *)
(***************************************************************************)
EXTENDS Integers, Sequences, FiniteSets, TLC

(***************************************************************************)
(* Bounds of the model.                                                     *)
(***************************************************************************)
\* number of registered instances in the store
NumInstances == 2
\* number of GET requests that may be in flight at once in SpecOverlap
NumSweeps == 2
\* number of registered instances in the store in SpecOverlap
OverlapInstances == 1

(***************************************************************************)
(* Program constants.                                                       *)
(***************************************************************************)
\* part_001:117  if (allInstances[i].failed_checks >= 5)
BanThreshold == 5
\* part_001:122
BanReason == "Instance failed 5 checks in a row"
\* ban_reason of a row that was never banned (SQL NULL)
NoReason == "null"

SweepIds == 1..NumSweeps

(***************************************************************************)
(* Paths.  A path is the sequence of its pieces: the separator "/" and the  *)
(* maximal runs of characters between separators ("" is the empty           *)
(* sequence).  String.includes and String.startsWith over the characters    *)
(* agree with the operators below over the pieces for the patterns the      *)
(* code uses, which all begin and end with "/".                             *)
(***************************************************************************)
\* JavaScript null / undefined in the place of a string
Null == <<"null">>
Empty == <<>>
Placeholder == <<"/", "img", "/", "fedi_placeholder.png">>
LocalA == <<"/", "img", "/", "a.png">>
LocalB == <<"/", "img", "/", "b.png">>
Runaway == <<"/", "img", "/", "img", "/", "a.png">>
Remote == <<"https:", "/", "/", "example.org", "/", "x.png">>
\* "img/img/a.png"
RelativeRunaway == <<"img", "/", "img", "/", "a.png">>
\* "https://example.org//img/img/a.png"
RemoteRunaway ==
    <<"https:", "/", "/", "example.org", "/", "/", "img", "/", "img", "/", "a.png">>

\* String.prototype.startsWith
StartsWith(p, pre) ==
    /\ Len(p) >= Len(pre)
    /\ SubSeq(p, 1, Len(pre)) = pre

\* String.prototype.includes
Includes(p, sub) ==
    \E k \in 1..(Len(p) - Len(sub) + 1) : SubSeq(p, k, k + Len(sub) - 1) = sub

\* fs.existsSync(path.resolve(process.cwd(), 'public', relativePath))
ExistsSync(p, files) == p \in files

\* validateThumbnailPath putting "/img" before a local path it does not find
validateThumbnailPathPrefixing(thumbnailPath, files) ==
    IF thumbnailPath = Null \/ thumbnailPath = Empty
    THEN Placeholder
    ELSE IF Includes(thumbnailPath, <<"/", "img", "/", "img", "/">>)
    THEN Placeholder
    ELSE IF StartsWith(thumbnailPath, <<"/", "img", "/">>)
    THEN IF ExistsSync(thumbnailPath, files)
         THEN thumbnailPath
         ELSE <<"/", "img">> \o thumbnailPath
    ELSE thumbnailPath

\* validateThumbnailPath without the check of part_001:31
validateThumbnailPathNoExistsCheck(thumbnailPath, files) ==
    IF thumbnailPath = Null \/ thumbnailPath = Empty
    THEN Placeholder
    ELSE IF Includes(thumbnailPath, <<"/", "img", "/", "img", "/">>)
    THEN Placeholder
    ELSE thumbnailPath

\* validateThumbnailPath, part_001:14-44
validateThumbnailPath(thumbnailPath, files) ==
    IF thumbnailPath = Null \/ thumbnailPath = Empty
    THEN Placeholder
    ELSE IF Includes(thumbnailPath, <<"/", "img", "/", "img", "/">>)
    THEN Placeholder
    ELSE IF StartsWith(thumbnailPath, <<"/", "img", "/">>)
    THEN IF ExistsSync(thumbnailPath, files) THEN thumbnailPath ELSE Placeholder
    ELSE thumbnailPath

(***************************************************************************)
(* State.                                                                   *)
(***************************************************************************)
VARIABLES
    instances,       \* table instances: id -> [failed_checks, banned, ban_reason]
    instanceData,    \* table instanceData: instance_id -> metadata record
    assets,          \* the files present under public/
    tableOrder,      \* the ids in the order the table yields its rows
    pc,              \* per GET request: the await it is suspended at
    allInstances,    \* per GET request: the rows findMany returned
    i,               \* per GET request: the loop index (1-based)
    updateInstance,  \* per GET request: what checkAvailable returned
    response,        \* per GET request: the response it returned
    probes,          \* per GET request: id -> how checkAvailable ended for it
    storageFailed,   \* per GET request: ids for which a prisma update threw
    written,         \* per GET request: ids whose instances row it updated
    bannedAtStart,   \* per GET request: ids banned when findMany ran
    revalidateCalls, \* per GET request: calls of triggerRevalidation
    channels,        \* per GET request: what its triggerRevalidation did
    failRun,         \* per id: failed probes recorded in a row, -1 untracked
    postResponse,    \* the POST request in flight: its response, or "idle"
    addPc,           \* the add.ts request: the await it is suspended at
    addRequest,      \* the add.ts request: its method and body
    cachedata,       \* the add.ts request: what the second testURI returned
    addSent,         \* the add.ts request: the statuses it sent, in order
    plan             \* per id: how its probe and its writes end, if fixed

storeVars == <<instances, instanceData, assets, tableOrder>>
sweepVars == <<pc, allInstances, i, updateInstance, response>>
addVars == <<addPc, addRequest, cachedata, addSent>>
logVars == <<probes, storageFailed, written, bannedAtStart,
             revalidateCalls, channels>>
vars == <<instances, instanceData, assets, tableOrder, pc, allInstances, i,
          updateInstance, response, probes, storageFailed, written,
          bannedAtStart, revalidateCalls, channels, failRun, postResponse,
          addPc, addRequest, cachedata, addSent, plan>>

Ids == DOMAIN instances

\* the row prismac.instances.create leaves (add.ts:25-36): schema defaults
NewInstance == [failed_checks |-> 0, banned |-> FALSE, ban_reason |-> NoReason]

\* the InstanceData row created alongside (add.ts:32-34): only cache is set,
\* to the registration snapshot (version 0)
NewInstanceData ==
    [title |-> 0, description |-> 0, thumbnail |-> Null, user_count |-> 0,
     status_count |-> 0, registrations |-> 0, approval_required |-> 0,
     cache |-> 0]

\* what checkAvailable returns for a reachable host serving snapshot v
ProbeResult(v, t) ==
    [title |-> v, description |-> v, thumbnail |-> t, user_count |-> v,
     status_count |-> v, registrations |-> v, approval_required |-> v]

NoResult == [none |-> TRUE]
NoResponse == [status |-> 0, message |-> "none"]
NoPlan == <<>>
NoChannels == [attempted |-> {}, threw |-> {}, propagated |-> FALSE]

\* prisma update: the fields of data replace those of row, the rest stay
ApplyUpdate(row, data) ==
    [f \in DOMAIN row |-> IF f \in DOMAIN data THEN data[f] ELSE row[f]]

\* the outcomes of one prisma call: done, or one of the error classes
StorageOutcomes == {"ok", "known", "validation", "other"}

\* checkAvailable returned false
Unreachable == [unreachable |-> TRUE]

\* the results checkAvailable can return from hosts serving thumbs
ProbeResults(versions, thumbs) ==
    {Unreachable} \cup {ProbeResult(v, t) : v \in versions, t \in thumbs}

(***************************************************************************)
(* GET, part_001:80-147.                                                    *)
(***************************************************************************)
\* FindManyFilter without the where clause
FindManyAll(row) == TRUE

\* where: { banned: false }, part_001:81-83
FindManyFilter(row) == row.banned = FALSE

\* CatchAction answering 400 to any error
CatchActionAbortAll(kind) == "return400"

\* the catch block of the loop, part_001:134-140: what the handler does with
\* an error of class kind thrown inside the try
CatchAction(kind) ==
    IF kind = "known" THEN "return400"
    ELSE IF kind = "validation" THEN "return400"
    ELSE "continue"

\* SuccessData without the reset
SuccessDataNoReset == [f \in {} |-> 0]

\* SuccessData also clearing the ban
SuccessDataUnbans == [failed_checks |-> 0, banned |-> FALSE]

\* data of the update after a successful probe, part_001:112-114
SuccessData == [failed_checks |-> 0]

\* BanData also resetting the counter
BanDataResetsCounter ==
    [banned |-> TRUE, ban_reason |-> BanReason, failed_checks |-> 0]

\* data of the update that bans, part_001:120-123
BanData == [banned |-> TRUE, ban_reason |-> BanReason]

\* FailureData counting down
FailureDataDecrement(row) == [failed_checks |-> row.failed_checks - 1]

\* data of the update that counts a failure, part_001:128-130
FailureData(row) == [failed_checks |-> row.failed_checks + 1]

\* the test of part_001:117
ShouldBan(row) == row.failed_checks >= BanThreshold

\* data of the update of the metadata, part_001:100-108
MetadataData(u, validatedThumbnail) ==
    [title |-> u.title, description |-> u.description,
     thumbnail |-> validatedThumbnail, user_count |-> u.user_count,
     status_count |-> u.status_count, registrations |-> u.registrations,
     approval_required |-> u.approval_required]

\* part_001:91-93: a null thumbnail becomes the placeholder
FixNullThumbnail(u) ==
    IF u # Unreachable /\ u.thumbnail = Null
    THEN [u EXCEPT !.thumbnail = Placeholder]
    ELSE u

\* the ids checkAvailable was called for, and those it ended a given way for
Probed(s) == DOMAIN probes[s]
ProbedAs(s, kind) == {id \in DOMAIN probes[s] : probes[s][id] = kind}

\* the ids of the rows findMany returned
Enumerated(s) == {allInstances[s][k].id : k \in DOMAIN allInstances[s]}

\* the row the loop is at
Current(s) == allInstances[s][i[s]]

\* i++ and the loop test of part_001:84
NextPc(s) == IF i[s] + 1 > Len(allInstances[s]) THEN "revalidate" ELSE "probe"

\* the response of part_001:136 / 138
Response400 == [status |-> 400, message |-> "prisma error"]
\* the response of part_001:146
Response200 == [status |-> 200, message |-> "successfully updated instances"]
\* findMany rejects (part_001:81): the exception leaves the handler and the
\* framework answers 500
EnumerateFailed == [status |-> 500, message |-> "findMany rejected"]
\* an exception leaving triggerRevalidation (part_001:144) would do the same
RevalidateFailed == [status |-> 500, message |-> "triggerRevalidation rejected"]

\* the loop body ended by an exception of class kind, caught at part_001:134
Caught(s, kind) ==
    IF CatchAction(kind) = "return400"
    THEN /\ pc' = [pc EXCEPT ![s] = "responded"]
         /\ response' = [response EXCEPT ![s] = Response400]
         /\ i' = i
    ELSE /\ pc' = [pc EXCEPT ![s] = NextPc(s)]
         /\ response' = response
         /\ i' = [i EXCEPT ![s] = i[s] + 1]

\* the loop body ran to its end
Iterated(s) ==
    /\ pc' = [pc EXCEPT ![s] = NextPc(s)]
    /\ response' = response
    /\ i' = [i EXCEPT ![s] = i[s] + 1]

\* the rows findMany returns: those the filter keeps, in table order, each
\* with the fields the loop reads
FindManyIn(order, rows) ==
    LET Keep(id) == FindManyFilter(rows[id])
        kept == SelectSeq(order, Keep)
    IN [k \in DOMAIN kept |->
           [id |-> kept[k], failed_checks |-> rows[kept[k]].failed_checks]]

FindMany == FindManyIn(tableOrder, instances)

\* part_001:81-83: await prisma.instances.findMany, outside any try
Enumerate(s) ==
    /\ pc[s] = "idle"
    /\ \/ /\ allInstances' = [allInstances EXCEPT ![s] = FindMany]
          /\ pc' = [pc EXCEPT ![s] =
                 IF Len(FindMany) = 0 THEN "revalidate" ELSE "probe"]
          /\ bannedAtStart' = [bannedAtStart EXCEPT ![s] =
                 {id \in Ids : instances[id].banned}]
          /\ response' = response
       \/ /\ pc' = [pc EXCEPT ![s] = "responded"]
          /\ response' = [response EXCEPT ![s] = EnumerateFailed]
          /\ UNCHANGED <<allInstances, bannedAtStart>>
    /\ i' = [i EXCEPT ![s] = 1]
    /\ UNCHANGED <<storeVars, updateInstance, probes, storageFailed, written,
                   revalidateCalls, channels, failRun, postResponse, addVars, plan>>

\* part_001:86-93: await InstanceFetcher.checkAvailable
Probe(s, versions, thumbs) ==
    /\ pc[s] = "probe"
    /\ \/ \E u \in ProbeResults(versions, thumbs) :
            /\ updateInstance' = [updateInstance EXCEPT ![s] = FixNullThumbnail(u)]
            /\ pc' = [pc EXCEPT ![s] =
                   IF u # Unreachable THEN "updateData" ELSE "recordFailure"]
            /\ probes' = [probes EXCEPT ![s] =
                   (Current(s).id :> (IF u # Unreachable THEN "ok" ELSE "unreachable"))
                       @@ @]
            /\ UNCHANGED <<i, response, failRun>>
       \/ /\ Caught(s, "other")
          /\ probes' = [probes EXCEPT ![s] = (Current(s).id :> "threw") @@ @]
          /\ failRun' = [failRun EXCEPT ![Current(s).id] = -1]
          /\ UNCHANGED updateInstance
    /\ UNCHANGED <<storeVars, allInstances, storageFailed, written,
                   bannedAtStart, revalidateCalls, channels, postResponse, addVars, plan>>

\* part_001:96-109: validateThumbnailPath, await prisma.instanceData.update
UpdateData(s) ==
    /\ pc[s] = "updateData"
    /\ \E out \in StorageOutcomes :
          IF out = "ok"
          THEN /\ instanceData' = [instanceData EXCEPT ![Current(s).id] =
                      ApplyUpdate(@, MetadataData(updateInstance[s],
                          validateThumbnailPath(updateInstance[s].thumbnail, assets)))]
               /\ pc' = [pc EXCEPT ![s] = "resetCounter"]
               /\ UNCHANGED <<i, response, storageFailed, failRun>>
          ELSE /\ Caught(s, out)
               /\ storageFailed' = [storageFailed EXCEPT ![s] = @ \cup {Current(s).id}]
               /\ failRun' = [failRun EXCEPT ![Current(s).id] = -1]
               /\ UNCHANGED instanceData
    /\ UNCHANGED <<instances, assets, tableOrder, allInstances, updateInstance, probes,
                   written, bannedAtStart, revalidateCalls, channels,
                   postResponse, addVars, plan>>

\* part_001:110-115: await prisma.instances.update, failed_checks: 0
ResetCounter(s) ==
    /\ pc[s] = "resetCounter"
    /\ \E out \in StorageOutcomes :
          IF out = "ok"
          THEN /\ instances' = [instances EXCEPT ![Current(s).id] =
                      ApplyUpdate(@, SuccessData)]
               /\ written' = [written EXCEPT ![s] = @ \cup {Current(s).id}]
               /\ failRun' = [failRun EXCEPT ![Current(s).id] = 0]
               /\ Iterated(s)
               /\ UNCHANGED storageFailed
          ELSE /\ Caught(s, out)
               /\ storageFailed' = [storageFailed EXCEPT ![s] = @ \cup {Current(s).id}]
               /\ failRun' = [failRun EXCEPT ![Current(s).id] = -1]
               /\ UNCHANGED <<instances, written>>
    /\ UNCHANGED <<instanceData, assets, tableOrder, allInstances, updateInstance, probes,
                   bannedAtStart, revalidateCalls, channels, postResponse, addVars, plan>>

\* part_001:116-133: the failure branch, one await prisma.instances.update
RecordFailure(s) ==
    /\ pc[s] = "recordFailure"
    /\ \E out \in StorageOutcomes :
          IF out = "ok"
          THEN /\ instances' = [instances EXCEPT ![Current(s).id] =
                      ApplyUpdate(@, IF ShouldBan(Current(s))
                                     THEN BanData
                                     ELSE FailureData(Current(s)))]
               /\ written' = [written EXCEPT ![s] = @ \cup {Current(s).id}]
               /\ failRun' = [failRun EXCEPT ![Current(s).id] =
                      IF \/ @ = -1
                         \/ instances[Current(s).id].banned
                         \/ instances[Current(s).id].failed_checks
                                # Current(s).failed_checks
                      THEN -1 ELSE @ + 1]
               /\ Iterated(s)
               /\ UNCHANGED storageFailed
          ELSE /\ Caught(s, out)
               /\ storageFailed' = [storageFailed EXCEPT ![s] = @ \cup {Current(s).id}]
               /\ failRun' = [failRun EXCEPT ![Current(s).id] = -1]
               /\ UNCHANGED <<instances, written>>
    /\ UNCHANGED <<instanceData, assets, tableOrder, allInstances, updateInstance, probes,
                   bannedAtStart, revalidateCalls, channels, postResponse, addVars, plan>>

(***************************************************************************)
(* triggerRevalidation, part_001:47-78.                                     *)
(***************************************************************************)
Channels == {"tag", "path", "api"}

\* triggerRevalidation without its outer catch
triggerRevalidationNoCatch(throws) ==
    LET attempted == {"tag"}
                     \cup (IF "tag" \notin throws THEN {"path"} ELSE {})
                     \cup (IF "tag" \notin throws /\ "path" \notin throws
                           THEN {"api"} ELSE {})
    IN [attempted |-> attempted,
        threw |-> attempted \cap throws,
        propagated |-> (attempted \cap throws) \cap {"tag", "path"} # {}]

\* throws is the set of channels whose call throws when it is made.
\* revalidateTag (52) and revalidatePath (56) sit directly in the outer try;
\* the fetch (65) has a try of its own; the outer catch (75) ends the function.
triggerRevalidation(throws) ==
    LET attempted == {"tag"}
                     \cup (IF "tag" \notin throws THEN {"path"} ELSE {})
                     \cup (IF "tag" \notin throws /\ "path" \notin throws
                           THEN {"api"} ELSE {})
    IN [attempted |-> attempted,
        threw |-> attempted \cap throws,
        propagated |-> FALSE]

\* part_001:143-146: await triggerRevalidation(request), then the response
Revalidate(s) ==
    /\ pc[s] = "revalidate"
    /\ \E throws \in SUBSET Channels :
          LET r == triggerRevalidation(throws)
          IN /\ channels' = [channels EXCEPT ![s] = r]
             /\ response' = [response EXCEPT ![s] =
                    IF r.propagated THEN RevalidateFailed ELSE Response200]
    /\ revalidateCalls' = [revalidateCalls EXCEPT ![s] = @ + 1]
    /\ pc' = [pc EXCEPT ![s] = "responded"]
    /\ UNCHANGED <<storeVars, allInstances, i, updateInstance, probes,
                   storageFailed, written, bannedAtStart, failRun,
                   postResponse, addVars, plan>>

\* the request is over; the next GET starts from a fresh activation
Finish(s) ==
    /\ pc[s] = "responded"
    /\ pc' = [pc EXCEPT ![s] = "idle"]
    /\ allInstances' = [allInstances EXCEPT ![s] = <<>>]
    /\ i' = [i EXCEPT ![s] = 1]
    /\ updateInstance' = [updateInstance EXCEPT ![s] = NoResult]
    /\ response' = [response EXCEPT ![s] = NoResponse]
    /\ probes' = [probes EXCEPT ![s] = <<>>]
    /\ storageFailed' = [storageFailed EXCEPT ![s] = {}]
    /\ written' = [written EXCEPT ![s] = {}]
    /\ bannedAtStart' = [bannedAtStart EXCEPT ![s] = {}]
    /\ revalidateCalls' = [revalidateCalls EXCEPT ![s] = 0]
    /\ channels' = [channels EXCEPT ![s] = NoChannels]
    /\ UNCHANGED <<storeVars, failRun, postResponse, addVars, plan>>

(***************************************************************************)
(* POST, part_001:149-212.                                                  *)
(***************************************************************************)
\* a body without uri (part_001:153)
NoUri == 0
\* a uri no row has (part_001:162)
UnknownUri == -1

\* the test of part_001:176-180
RunawayThumbnail(t) ==
    /\ t # Null
    /\ t # Empty
    /\ \/ StartsWith(t, <<"/", "img", "/", "img", "/">>)
       \/ Includes(t, <<"/", "/", "img", "/", "img", "/">>)
       \/ StartsWith(t, <<"img", "/", "img", "/">>)

\* the whole handler: it writes nothing to the store.  threw says that
\* request.json() or a findUnique threw (part_001:205-211).
POST(uri, threw, throws) ==
    /\ postResponse = NoResponse
    /\ postResponse' =
          IF threw
          THEN [status |-> 500, message |-> "Internal server error"]
          ELSE IF uri = NoUri
          THEN [status |-> 400, message |-> "URI is required"]
          ELSE IF uri \notin Ids
          THEN [status |-> 404, message |-> "Instance not found"]
          ELSE IF RunawayThumbnail(instanceData[uri].thumbnail)
          THEN [status |-> 400, message |-> "Invalid thumbnail path detected"]
          ELSE IF triggerRevalidation(throws).propagated
          THEN [status |-> 500, message |-> "Internal server error"]
          ELSE [status |-> 200, message |-> "success"]
    /\ UNCHANGED <<storeVars, sweepVars, logVars, failRun, addVars, plan>>

\* the POST request is over
PostReturn ==
    /\ postResponse # NoResponse
    /\ postResponse' = NoResponse
    /\ UNCHANGED <<storeVars, sweepVars, logVars, failRun, addVars, plan>>

(***************************************************************************)
(* The registration handler, add.ts:10-95.                                  *)
(***************************************************************************)
NoRequest == [method |-> "none", uri |-> 0]

\* what testURI returns for a host that answers: the instance information,
\* with or without a contact account
CacheData(contact) == [title |-> 0, contact_account |-> contact]

\* add.ts:77-93: the statuses the catch block sends for an error of a class
AddCatch(kind) ==
    IF kind = "P2002" \/ kind = "known" \/ kind = "validation"
    THEN <<400>>
    ELSE <<>>

\* the errors a prisma call of add.ts can throw
AddErrors == {"P2002", "known", "validation", "other"}

\* add.ts:11-18: the request arrives; a method other than POST is refused
AddReceive(method, uri) ==
    /\ addPc = "idle"
    /\ addRequest' = [method |-> method, uri |-> uri]
    /\ IF method # "POST"
       THEN /\ addSent' = <<405>>
            /\ addPc' = "done"
       ELSE /\ addSent' = <<>>
            /\ addPc' = "testURI"
    /\ UNCHANGED <<storeVars, sweepVars, logVars, failRun, postResponse,
                   cachedata, plan>>

\* add.ts:20-21: await testURI, the first call
AddTestURI ==
    /\ addPc = "testURI"
    /\ \/ /\ addSent' = Append(addSent, 400)
          /\ addPc' = "done"
       \/ /\ addPc' = "testURIAgain"
          /\ UNCHANGED addSent
    /\ UNCHANGED <<storeVars, sweepVars, logVars, failRun, postResponse,
                   addRequest, cachedata, plan>>

\* add.ts:23: await testURI, the second call, outside the try
AddTestURIAgain ==
    /\ addPc = "testURIAgain"
    /\ \E contact \in BOOLEAN : cachedata' = CacheData(contact)
    /\ addPc' = "create"
    /\ UNCHANGED <<storeVars, sweepVars, logVars, failRun, postResponse,
                   addRequest, addSent, plan>>

\* add.ts:25-36: await prismac.instances.create; uri is unique
AddCreate ==
    /\ addPc = "create"
    /\ \/ /\ addRequest.uri \notin Ids
          /\ instances' = (addRequest.uri :> NewInstance) @@ instances
          /\ instanceData' = (addRequest.uri :> NewInstanceData) @@ instanceData
          /\ tableOrder' = Append(tableOrder, addRequest.uri)
          /\ failRun' = (addRequest.uri :> 0) @@ failRun
          /\ addPc' = "update"
          /\ UNCHANGED addSent
       \/ \E kind \in AddErrors :
            /\ kind = "P2002" => addRequest.uri \in Ids
            /\ addSent' = addSent \o AddCatch(kind)
            /\ addPc' = "done"
            /\ UNCHANGED <<instances, instanceData, tableOrder, failRun>>
    /\ UNCHANGED <<assets, sweepVars, logVars, postResponse, addRequest,
                   cachedata, plan>>

\* add.ts:39-74: await prismac.instances.update with verified: false, which
\* the new row already has; then the direct message and the response.
\* generator and postStatus are called in the try block and may throw.
AddUpdate ==
    /\ addPc = "update"
    /\ \/ /\ cachedata.contact_account
          /\ \E dm \in {"sent", "generator threw", "postStatus threw"} :
                addSent' = IF dm = "generator threw"
                           THEN addSent \o AddCatch("other")
                           ELSE Append(addSent, 200) \o AddCatch("other")
       \/ /\ ~cachedata.contact_account
          /\ addSent' = Append(addSent, 200)
       \/ \E kind \in AddErrors \ {"P2002"} :
            addSent' = addSent \o AddCatch(kind)
    /\ addPc' = "done"
    /\ UNCHANGED <<storeVars, sweepVars, logVars, failRun, postResponse,
                   addRequest, cachedata, plan>>

\* the promise of the handler has resolved
AddReturn ==
    /\ addPc = "done"
    /\ addPc' = "idle"
    /\ addRequest' = NoRequest
    /\ cachedata' = NoResult
    /\ addSent' = <<>>
    /\ UNCHANGED <<storeVars, sweepVars, logVars, failRun, postResponse, plan>>

(***************************************************************************)
(* GET with the outcome of every await fixed per instance: the loop of     *)
(* part_001:84-141 as a function of the order of the rows.                 *)
(***************************************************************************)
\* checkAvailable threw
Threw == [threw |-> TRUE]

\* how the awaits of the loop body end for one instance: what checkAvailable
\* does, and the outcomes of instanceData.update and of instances.update
Plans(results) ==
    [result : results \cup {Threw},
     data : {"ok", "known", "other"},
     counter : {"ok", "known", "other"}]

\* part_001:85-141 for one row: st holds the two tables and whether the
\* handler has returned 400
Body(row, st, p, files) ==
    LET Fail(kind) ==
            [st EXCEPT !.returned = CatchAction(kind) = "return400"]
        u == FixNullThumbnail(p.result)
    IN IF p.result = Threw THEN Fail("other")
       ELSE IF u # Unreachable
       THEN IF p.data # "ok" THEN Fail(p.data)
            ELSE LET st1 == [st EXCEPT !.instanceData[row.id] =
                                ApplyUpdate(@, MetadataData(u,
                                    validateThumbnailPath(u.thumbnail, files)))]
                 IN IF p.counter # "ok"
                    THEN [st1 EXCEPT !.returned =
                             CatchAction(p.counter) = "return400"]
                    ELSE [st1 EXCEPT !.instances[row.id] =
                             ApplyUpdate(@, SuccessData)]
       ELSE IF p.counter # "ok" THEN Fail(p.counter)
            ELSE [st EXCEPT !.instances[row.id] =
                     ApplyUpdate(@, IF ShouldBan(row)
                                    THEN BanData
                                    ELSE FailureData(row))]

RECURSIVE Loop(_, _, _, _, _)
\* part_001:84: for (let i = k; i < allInstances.length; i++)
Loop(rows, k, st, plans, files) ==
    IF k > Len(rows)
    THEN st
    ELSE LET st1 == Body(rows[k], st, plans[rows[k].id], files)
         IN IF st1.returned THEN st1 ELSE Loop(rows, k + 1, st1, plans, files)

\* part_001:80-147: the tables GET leaves and the response it returns when
\* the table yields its rows in the given order
GETResult(order, rows, data, plans, files) ==
    LET st == Loop(FindManyIn(order, rows), 1,
                   [instances |-> rows, instanceData |-> data,
                    returned |-> FALSE], plans, files)
    IN [instances |-> st.instances, instanceData |-> st.instanceData,
        response |-> IF st.returned THEN Response400 ELSE Response200]

\* the step of sweep s ends as the plan of its row says
PlannedProbe(s) ==
    LET p == plan[Current(s).id]
    IN IF p.result = Threw
       THEN probes'[s][Current(s).id] = "threw"
       ELSE /\ probes'[s][Current(s).id] # "threw"
            /\ updateInstance'[s] = FixNullThumbnail(p.result)

PlannedWrite(s, out) ==
    IF out = "ok"
    THEN storageFailed' = storageFailed
    ELSE /\ storageFailed' # storageFailed
         /\ response'[s] = Response400 <=> CatchAction(out) = "return400"

(***************************************************************************)
(* Specifications.                                                          *)
(***************************************************************************)
\* the store after n registrations (add.ts:25-36), no request in flight
InitPlanned(n, files, orders, plans) ==
    /\ instances = [id \in 1..n |-> NewInstance]
    /\ instanceData = [id \in 1..n |-> NewInstanceData]
    /\ assets \in files
    /\ tableOrder \in orders
    /\ pc = [s \in SweepIds |-> "idle"]
    /\ allInstances = [s \in SweepIds |-> <<>>]
    /\ i = [s \in SweepIds |-> 1]
    /\ updateInstance = [s \in SweepIds |-> NoResult]
    /\ response = [s \in SweepIds |-> NoResponse]
    /\ probes = [s \in SweepIds |-> <<>>]
    /\ storageFailed = [s \in SweepIds |-> {}]
    /\ written = [s \in SweepIds |-> {}]
    /\ bannedAtStart = [s \in SweepIds |-> {}]
    /\ revalidateCalls = [s \in SweepIds |-> 0]
    /\ channels = [s \in SweepIds |-> NoChannels]
    /\ failRun = [id \in 1..n |-> 0]
    /\ postResponse = NoResponse
    /\ addPc = "idle"
    /\ addRequest = NoRequest
    /\ cachedata = NoResult
    /\ addSent = <<>>
    /\ plan \in plans

\* the same, with nothing fixed about how probes and writes end
InitWith(n, files, orders) == InitPlanned(n, files, orders, {NoPlan})

\* the state of public/ the sweeps of Spec and SpecOverlap run against
SweepAssets == {{Placeholder, LocalA}}

\* thumbnails the remote hosts serve in the sweeps of Spec and SpecOverlap
SweepThumbs == {Null, Runaway}

\* the snapshots (title, counts, ...) the remote hosts serve in those sweeps;
\* 0 is the snapshot taken at registration
SweepVersions == {1}

\* the rows in the order of their ids
IdOrder(n) == [k \in 1..n |-> k]

\* no request is in flight: what a single-flight caller waits for
SingleFlight ==
    /\ \A s \in SweepIds : pc[s] = "idle"
    /\ postResponse = NoResponse

PostInputs == (1..NumInstances) \cup {NoUri, UnknownUri}

Init == InitWith(NumInstances, SweepAssets, {IdOrder(NumInstances)})

\* requests arrive one at a time (a cron job and a single-flight caller)
Next ==
    \/ SingleFlight /\ Enumerate(1)
    \/ Probe(1, SweepVersions, SweepThumbs)
    \/ UpdateData(1)
    \/ ResetCounter(1)
    \/ RecordFailure(1)
    \/ Revalidate(1)
    \/ Finish(1)
    \/ SingleFlight /\ \E uri \in PostInputs, threw \in BOOLEAN,
                          throws \in SUBSET Channels : POST(uri, threw, throws)
    \/ PostReturn

Spec == Init /\ [][Next]_vars

InitOverlap == InitWith(OverlapInstances, SweepAssets, {IdOrder(OverlapInstances)})

\* requests arrive at any time: nothing in the route keeps them apart
\* (the POST requests here are well-formed; Spec covers the malformed ones)
NextOverlap ==
    \/ \E s \in SweepIds : Enumerate(s)
    \/ \E s \in SweepIds : Probe(s, SweepVersions, SweepThumbs)
    \/ \E s \in SweepIds : UpdateData(s)
    \/ \E s \in SweepIds : ResetCounter(s)
    \/ \E s \in SweepIds : RecordFailure(s)
    \/ \E s \in SweepIds : Revalidate(s)
    \/ \E s \in SweepIds : Finish(s)
    \/ \E uri \in 1..OverlapInstances, throws \in {{}, Channels} :
          POST(uri, FALSE, throws)
    \/ PostReturn

SpecOverlap == InitOverlap /\ [][NextOverlap]_vars

(***************************************************************************)
(* The sweep against hosts serving any kind of thumbnail, and any state of  *)
(* public/.                                                                 *)
(***************************************************************************)
\* number of registered instances in the store in SpecThumbs
ThumbInstances == 1

\* the thumbnails the remote hosts serve
AllThumbs ==
    {Null, Empty, Placeholder, LocalA, Runaway, Remote, RelativeRunaway,
     RemoteRunaway}

\* the states of public/
AllAssets == SUBSET {Placeholder, LocalA}

InitThumbs == InitWith(ThumbInstances, AllAssets, {IdOrder(ThumbInstances)})

NextThumbs ==
    \/ SingleFlight /\ Enumerate(1)
    \/ Probe(1, SweepVersions, AllThumbs)
    \/ UpdateData(1)
    \/ ResetCounter(1)
    \/ RecordFailure(1)
    \/ Revalidate(1)
    \/ Finish(1)
    \/ SingleFlight /\ \E uri \in 1..ThumbInstances, throws \in {{}, Channels} :
                          POST(uri, FALSE, throws)
    \/ PostReturn

SpecThumbs == InitThumbs /\ [][NextThumbs]_vars

(***************************************************************************)
(* The sweep triggered again and again: every await of a sweep in flight   *)
(* settles, and an idle endpoint is called again.                          *)
(***************************************************************************)
NextLive ==
    \/ Enumerate(1)
    \/ Probe(1, SweepVersions, SweepThumbs)
    \/ UpdateData(1)
    \/ ResetCounter(1)
    \/ RecordFailure(1)
    \/ Revalidate(1)
    \/ Finish(1)

SpecLive == Init /\ [][NextLive]_vars /\ WF_vars(NextLive)

(***************************************************************************)
(* Registration requests, one at a time, for the URIs 1..AddUris of which  *)
(* the first is registered already.                                         *)
(***************************************************************************)
AddUris == 3

AddMethods == {"GET", "POST", "DELETE"}

InitAdd == InitWith(1, SweepAssets, {IdOrder(1)})

NextAdd ==
    \/ \E method \in AddMethods, uri \in 1..AddUris : AddReceive(method, uri)
    \/ AddTestURI
    \/ AddTestURIAgain
    \/ AddCreate
    \/ AddUpdate
    \/ AddReturn

SpecAdd == InitAdd /\ [][NextAdd]_vars

(***************************************************************************)
(* One sweep over a table that yields its rows in any order, with the      *)
(* outcome of every await fixed per instance beforehand.                   *)
(***************************************************************************)
\* number of registered instances in the store in SpecOrder
OrderInstances == 2

\* the orders in which a table of n rows can yield them
Orders(n) ==
    {o \in [1..n -> 1..n] : \A a, b \in 1..n : o[a] = o[b] => a = b}

OrderPlans == Plans(ProbeResults(SweepVersions, {Null}))

InitOrder ==
    InitPlanned(OrderInstances, SweepAssets, Orders(OrderInstances),
                [1..OrderInstances -> OrderPlans])

NextOrder ==
    \/ Enumerate(1) /\ response' = response
    \/ Probe(1, SweepVersions, {Null}) /\ PlannedProbe(1)
    \/ UpdateData(1) /\ PlannedWrite(1, plan[Current(1).id].data)
    \/ ResetCounter(1) /\ PlannedWrite(1, plan[Current(1).id].counter)
    \/ RecordFailure(1) /\ PlannedWrite(1, plan[Current(1).id].counter)
    \/ Revalidate(1)

SpecOrder == InitOrder /\ [][NextOrder]_vars

(***************************************************************************)
(* Properties.                                                              *)
(***************************************************************************)
Responded(s) == pc[s] = "responded"

\* the sweep got its rows from findMany
GotRows(s) == Responded(s) /\ response[s] # EnumerateFailed

\* the positions of the rows findMany returned
Rows(s) == DOMAIN allInstances[s]

\* C1: counting from a reset counter, an instance is banned, with the ban
\* reason set, by the sweep that records its 5th failed probe in a row; after
\* 4 or fewer it is not banned and its counter is the length of the run.
C1_BannedAtFifthFailure ==
    \A id \in Ids :
        failRun[id] >= 0 =>
            IF failRun[id] >= 5
            THEN /\ instances[id].banned
                 /\ instances[id].ban_reason = BanReason
            ELSE /\ ~instances[id].banned
                 /\ instances[id].failed_checks = failRun[id]

\* C2: when a prisma update for the row at position b throws, every row at a
\* later position c is still probed, and updated, by the same sweep.
C2_StorageErrorIsolated ==
    \A s \in SweepIds :
        Responded(s) =>
            \A b, c \in Rows(s) :
                (b < c /\ allInstances[s][b].id \in storageFailed[s]) =>
                    /\ allInstances[s][c].id \in Probed(s)
                    /\ allInstances[s][c].id \in written[s] \cup storageFailed[s]
                                                  \cup ProbedAs(s, "threw")

\* C3: a sweep that got its rows calls triggerRevalidation exactly once, after
\* the last row, whatever happened to the rows.
C3_RevalidatedExactlyOnce ==
    \A s \in SweepIds :
        /\ revalidateCalls[s] <= 1
        /\ revalidateCalls[s] = 1 => Enumerated(s) \subseteq Probed(s)
        /\ GotRows(s) => revalidateCalls[s] = 1

\* C4: checkAvailable is never called for an instance that was banned when
\* the sweep started.
C4_BannedNeverProbed ==
    \A s \in SweepIds : Probed(s) \cap bannedAtStart[s] = {}

\* a sweep that started with a banned instance probed the others and ended
C4_Witness ==
    \E s \in SweepIds :
        /\ Responded(s)
        /\ bannedAtStart[s] # {}
        /\ Probed(s) # {}

C6_BannedIsTerminal ==
    [][\A id \in Ids : instances[id].banned => instances'[id].banned]_vars

\* a banned row whose last update was the reset of the success branch (the
\* ban itself leaves failRun at 6 or -1), with a POST answered meanwhile
C6_Witness ==
    \E id \in Ids :
        /\ instances[id].banned
        /\ failRun[id] = 0
        /\ postResponse.status = 200

\* C7: whichever channel throws, all three channels are attempted.
C7_ChannelsIndependent ==
    \A s \in SweepIds :
        revalidateCalls[s] > 0 => channels[s].attempted = Channels

\* C8: no failure of a channel leaves triggerRevalidation, and a sweep that
\* reached triggerRevalidation answers the same 200 whether or not a channel
\* failed.
C8_NotifierFailureContained ==
    \A s \in SweepIds :
        revalidateCalls[s] > 0 =>
            /\ ~channels[s].propagated
            /\ Responded(s) => response[s] = Response200

\* a sweep whose first channel threw has answered
C8_Witness ==
    \E s \in SweepIds :
        /\ Responded(s)
        /\ revalidateCalls[s] > 0
        /\ "tag" \in channels[s].threw

\* C9: a sweep that got its rows answers 200 even when a prisma update for
\* one of them threw.
C9_StorageErrorNotFatal ==
    \A s \in SweepIds :
        (GotRows(s) /\ storageFailed[s] # {}) => response[s].status = 200

Writing(s, id, at) == pc[s] = at /\ Current(s).id = id

\* C11: when sweeps do not overlap, a failure counter is never negative, and
\* a step lowers it only as the reset to 0 after a successful probe of that
\* instance.
C11_CounterMonotoneBetweenSuccesses ==
    [][\A id \in Ids :
          /\ instances'[id].failed_checks >= 0
          /\ instances'[id].failed_checks < instances[id].failed_checks =>
                /\ instances'[id].failed_checks = 0
                /\ \E s \in SweepIds :
                      /\ Writing(s, id, "resetCounter")
                      /\ probes[s][id] = "ok"]_vars

\* one sweep has raised the counter of one row and reset that of another
C11_Witness ==
    \E s \in SweepIds :
        \E a, b \in Rows(s) :
            /\ allInstances[s][a].failed_checks > 0
            /\ instances[allInstances[s][a].id].failed_checks = 0
            /\ instances[allInstances[s][b].id].failed_checks
                  > allInstances[s][b].failed_checks

\* C12: the step that bans an instance writes the banned flag and the fixed
\* ban reason, and leaves its failure counter and every metadata record as
\* they were.
C12_BanLeavesCounter ==
    [][\A id \in Ids :
          (~instances[id].banned /\ instances'[id].banned) =>
              /\ instances'[id].failed_checks = instances[id].failed_checks
              /\ instances'[id].ban_reason = BanReason
              /\ instanceData' = instanceData]_vars

\* an instance was banned and its counter stands where the failures left it
C12_Witness ==
    \E id \in Ids :
        /\ instances[id].banned
        /\ instances[id].ban_reason = BanReason
        /\ instances[id].failed_checks = BanThreshold

\* C15: after the metadata update of a successful probe, every attribute of
\* the metadata record, the raw cache blob included, is that of this probe.
C15_MetadataFullyReplaced ==
    \A s \in SweepIds :
        pc[s] = "resetCounter" =>
            LET d == instanceData[Current(s).id]
                u == updateInstance[s]
            IN /\ d.title = u.title
               /\ d.description = u.description
               /\ d.thumbnail = validateThumbnailPath(u.thumbnail, assets)
               /\ d.user_count = u.user_count
               /\ d.status_count = u.status_count
               /\ d.registrations = u.registrations
               /\ d.approval_required = u.approval_required
               /\ d.cache = u.title

\* C18 as stated: with overlapping sweeps, a step lowers a failure counter
\* only as the reset to 0 after a successful probe.
C18_StaleWriteNeverLowers ==
    [][\A id \in Ids :
          instances'[id].failed_checks < instances[id].failed_checks =>
              \E s \in SweepIds :
                  /\ Writing(s, id, "resetCounter")
                  /\ instances'[id].failed_checks = 0]_vars

\* C18, amended: with overlapping sweeps, every change of a failure counter
\* is the reset to 0 of a successful probe or a failure write that sets it
\* to the writing sweep's snapshot value + 1, at most the threshold, whatever
\* is stored.
C18_CounterWritesFromSnapshot ==
    [][\A id \in Ids :
          instances'[id].failed_checks # instances[id].failed_checks =>
              \E s \in SweepIds :
                  \/ /\ Writing(s, id, "resetCounter")
                     /\ instances'[id].failed_checks = 0
                  \/ /\ Writing(s, id, "recordFailure")
                     /\ instances'[id].failed_checks
                           = Current(s).failed_checks + 1
                     /\ instances'[id].failed_checks <= BanThreshold]_vars

\* a sweep has written its snapshot value + 1 while another sweep in flight
\* had read a higher counter for the same row
C18_Witness ==
    \E s, t \in SweepIds :
        \E a \in Rows(s), b \in Rows(t) :
            /\ s # t
            /\ allInstances[s][a].id = allInstances[t][b].id
            /\ allInstances[s][a].id \in written[s] \cap ProbedAs(s, "unreachable")
            /\ instances[allInstances[s][a].id].failed_checks
                  = allInstances[s][a].failed_checks + 1
            /\ allInstances[t][b].failed_checks
                  > instances[allInstances[s][a].id].failed_checks

\* the thumbnail the metadata update of sweep s has just stored
Stored(s) == instanceData[Current(s).id].thumbnail

\* C13: for the public/ at hand, sanitizing a sanitized thumbnail changes
\* nothing: both for the thumbnail a sweep is about to sanitize and for every
\* thumbnail a sweep has stored, the placeholder included.
C13_SanitizerIdempotent ==
    /\ \A s \in SweepIds :
          pc[s] = "updateData" =>
              LET y == validateThumbnailPath(updateInstance[s].thumbnail, assets)
              IN validateThumbnailPath(y, assets) = y
    /\ \A id \in Ids :
          instanceData[id].thumbnail # Null =>
              validateThumbnailPath(instanceData[id].thumbnail, assets)
                  = instanceData[id].thumbnail

\* the placeholder was stored although public/ has no such file
C13_Witness ==
    \E id \in Ids :
        /\ instanceData[id].thumbnail = Placeholder
        /\ Placeholder \notin assets

\* C14: the sanitizer turns an absent or empty input into the placeholder;
\* else an input containing "/img/img/" into the placeholder; else a local
\* "/img/..." path into itself when public/ has the file and into the
\* placeholder when not; and returns any other input unchanged.
C14_SanitizerRules ==
    /\ validateThumbnailPath(Null, assets) = Placeholder
    /\ \A s \in SweepIds :
          pc[s] = "resetCounter" =>
              LET x == updateInstance[s].thumbnail
                  nested == Includes(x, <<"/", "img", "/", "img", "/">>)
                  local == StartsWith(x, <<"/", "img", "/">>)
              IN /\ x = Empty => Stored(s) = Placeholder
                 /\ (x # Empty /\ nested) => Stored(s) = Placeholder
                 /\ (x # Empty /\ ~nested /\ local /\ x \in assets) =>
                        Stored(s) = x
                 /\ (x # Empty /\ ~nested /\ local /\ x \notin assets) =>
                        Stored(s) = Placeholder
                 /\ (x # Empty /\ ~nested /\ ~local) => Stored(s) = x

\* a local path whose file is missing was stored as the placeholder
C14_Witness ==
    \E s \in SweepIds :
        /\ pc[s] = "resetCounter"
        /\ updateInstance[s].thumbnail = LocalA
        /\ LocalA \notin assets
        /\ Stored(s) = Placeholder

\* C19: every thumbnail the sweep stores is non-empty and passes the test of
\* the POST endpoint, which therefore never answers "Invalid thumbnail path
\* detected" for it.
C19_StoredThumbnailAccepted ==
    /\ \A s \in SweepIds :
          pc[s] = "resetCounter" =>
              /\ Stored(s) # Empty
              /\ ~RunawayThumbnail(Stored(s))
    /\ postResponse.message # "Invalid thumbnail path detected"

\* C16: with the sweep triggered again and again, an instance whose host no
\* sweep reaches, whose own writes all go through and whose table is always
\* listed, is eventually banned, whatever happens to the other instances.
C16_FailingInstanceEventuallyBanned ==
    \A id \in 1..NumInstances :
        [](/\ id \in Probed(1) => probes[1][id] = "unreachable"
           /\ id \notin storageFailed[1]
           /\ response[1] # EnumerateFailed)
            => <>(instances[id].banned)

\* C20: when the registration handler has run to its end it has sent exactly
\* one response.
C20_ExactlyOneResponse == addPc = "done" => Len(addSent) = 1

\* C17: with the outcome of every probe and write fixed per instance, the
\* tables a sweep leaves and the response it returns are those of the sweep
\* over any other order of the rows.
C17_OrderIndependent ==
    Responded(1) =>
        \A order \in Orders(OrderInstances) :
            GETResult(order, [id \in 1..OrderInstances |-> NewInstance],
                      [id \in 1..OrderInstances |-> NewInstanceData],
                      plan, assets)
                = [instances |-> instances, instanceData |-> instanceData,
                   response |-> response[1]]

====
